---- MODULE Spec2Model ----
(***************************************************************************)
(* Model of the request-scoped transformation core of python-utilities:    *)
(* the PDF controller (unlock / info / subset) with its temp files and     *)
(* deferred cleanup task, and the image controller (source resolution,     *)
(* resize, convert, info) behind its JSON and file-upload routes.          *)
(*                                                                         *)
(* Spec       PDF requests: handlers split at their single await           *)
(*            (file.read()), the file system, the cleanup task.            *)
(* SpecImage  image requests: validation, source resolution, dimension     *)
(*            arithmetic, encoding, and what the route answers.            *)
(* SpecInterleaved  several PDF requests and their cleanup tasks           *)
(*            interleaved at the awaits, on a small workload.              *)
(***************************************************************************)
EXTENDS Integers, Sequences, FiniteSets, TLC

\* ------------------------------------------------------------------ bounds
NumReq == 2
MaxPages == 3
MaxDim == 6

Requests == 1..NumReq
\* every request creates at most two temp files
Paths == 1..(2 * NumReq)
None == 0

VARIABLES
    \* ---- PDF controller, one entry per request
    pc,                 \* "idle" | "reading" (suspended in await file.read()) | "done"
    call,               \* the arguments of the request and the fault the environment injects
    temp_input_path,    \* local of the handler, None until created
    temp_output_path,   \* local of the handler, None until created
    response,           \* what the handler returned or raised
    trace,              \* the calls the handler made, in order
    task,               \* the deferred cleanup task: "none" | "created" | "sleeping" | "done"
    \* ---- the temp directory
    exists,             \* paths that exist
    used,               \* paths NamedTemporaryFile has handed out so far
    content,            \* what each path holds
    unlinks,            \* per path, the os.unlink calls that removed it
    undeletable,        \* paths on which os.unlink raises (PermissionError)
    \* ---- image controller (one request at a time)
    img

pdfVars == <<pc, call, temp_input_path, temp_output_path, response, trace, task,
             exists, used, content, unlinks, undeletable>>
vars == <<pc, call, temp_input_path, temp_output_path, response, trace, task,
          exists, used, content, unlinks, undeletable, img>>

\* ------------------------------------------------------------ documents
\* A PDF as the codec sees it: its pages in order, whether it is encrypted
\* (and not yet authenticated), whether fitz.open can parse it at all.
Doc(n, enc) == [pages |-> [i \in 1..n |-> i], encrypted |-> enc, corrupt |-> FALSE]
\* NamedTemporaryFile(delete=False) leaves a zero-length file: not a PDF.
EmptyFile == [pages |-> <<>>, encrypted |-> FALSE, corrupt |-> TRUE]
Garbage == [pages |-> <<>>, encrypted |-> FALSE, corrupt |-> TRUE]

Uploads == {Doc(n, e) : n \in 0..MaxPages, e \in BOOLEAN} \cup {Garbage}
Passwords == {"right", "wrong"}

\* The upload's declared filename, as characters; <<>> stands for None and "".
FileNames ==
    { <<>>,
      <<"a", ".", "p", "d", "f">>,
      <<"A", ".", "P", "D", "F">>,
      <<"a", ".", "t", "x", "t">>,
      <<"p", "d", "f">>,
      <<"U+6587", ".", "p", "d", "f">> }

LowerChar(c) ==
    CASE c = "A" -> "a"
      [] c = "P" -> "p"
      [] c = "D" -> "d"
      [] c = "F" -> "f"
      [] OTHER -> c

lower(s) == [i \in 1..Len(s) |-> LowerChar(s[i])]

endswith(s, suffix) ==
    /\ Len(s) >= Len(suffix)
    /\ SubSeq(s, Len(s) - Len(suffix) + 1, Len(s)) = suffix

DotPdf == <<".", "p", "d", "f">>

\* the check without its extension test
NotAPdfName_missing_only(filename) == filename = <<>>

\* `not file.filename or not file.filename.lower().endswith(".pdf")`
NotAPdfName(filename) == filename = <<>> \/ ~endswith(lower(filename), DotPdf)

\* str.encode("latin-1") raises on a character above U+00FF
encode_latin_1_raises(s) == \E i \in 1..Len(s) : s[i] = "U+6587"

\* str() of a natural number, as its decimal digits
Digits == <<"0", "1", "2", "3", "4", "5", "6", "7", "8", "9">>
RECURSIVE str(_)
str(n) == IF n < 10 THEN <<Digits[n + 1]>>
          ELSE str(n \div 10) \o <<Digits[(n % 10) + 1]>>

\* ------------------------------------------------------------ responses
NoDoc == [pages |-> <<>>, encrypted |-> FALSE, corrupt |-> FALSE]
NoResponse ==
    [kind |-> "none", status_code |-> 0, message |-> "", field |-> "", body |-> NoDoc,
     filename |-> <<>>, content_length |-> <<>>]

\* the bytes of a file holding document doc: a header and, for every page, a
\* page object of PageBytes bytes
HeaderBytes == 9
PageBytes == 1
file_len(doc) == HeaderBytes + PageBytes * Len(doc.pages)

\* dependencies/common.py ValidationError: HTTP 400
ValidationError(message, field) ==
    [kind |-> "ValidationError", status_code |-> 400, message |-> message,
     field |-> field, body |-> NoDoc, filename |-> <<>>, content_length |-> <<>>]

\* dependencies/common.py ProcessingError: HTTP 500
ProcessingError(message) ==
    [kind |-> "ProcessingError", status_code |-> 500, message |-> message,
     field |-> "", body |-> NoDoc, filename |-> <<>>, content_length |-> <<>>]

\* the PDFInfoResponse get_pdf_info returns
PDFInfoResponse(info) ==
    [kind |-> "Response", status_code |-> 200, message |-> "", field |-> "",
     body |-> info, filename |-> <<>>, content_length |-> <<>>]

\* fastapi Response(content=file_content, media_type="application/pdf",
\* headers={"Content-Disposition": f'attachment; filename="{filename}"',
\* "Content-Length": str(len(file_content))})
Response(file_content, filename) ==
    [kind |-> "Response", status_code |-> 200, message |-> "", field |-> "",
     body |-> file_content, filename |-> filename,
     content_length |-> str(file_len(file_content))]

\* server.py global_exception_handler: what the client gets for an exception
\* no other handler takes
global_exception_handler ==
    [kind |-> "Exception", status_code |-> 500,
     message |-> "An unexpected error occurred", field |-> "",
     body |-> NoDoc, filename |-> <<>>, content_length |-> <<>>]

\* ------------------------------------------------------------ temp files
\* The file system as one value, threaded through the steps of a handler.
FS ==
    [exists |-> exists, used |-> used, content |-> content, unlinks |-> unlinks,
     undeletable |-> undeletable]

\* tempfile.NamedTemporaryFile creates the file exclusively: the name it returns
\* names no existing file.  Names never handed out are interchangeable, so one
\* of them (the least) stands for all; a name freed by an unlink may come back.
NewNames(fs) ==
    (fs.used \ fs.exists) \cup
    {p \in Paths \ fs.used : \A q \in Paths \ fs.used : p <= q}

\* FileHandler.create_temp_file, returning path p
create_temp_file(fs, p) ==
    [fs EXCEPT !.exists = @ \cup {p}, !.used = @ \cup {p}, !.content[p] = EmptyFile]

\* open(path, "wb").write(data)
write(fs, p, data) ==
    [fs EXCEPT !.exists = @ \cup {p}, !.content[p] = data]

\* os.unlink(p) on an existing file
unlink(fs, p) ==
    [fs EXCEPT !.exists = @ \ {p}, !.unlinks[p] = @ + 1]

\* os.unlink(p) raises on a path the environment protects
unlink_raises(fs, p) == p \in fs.undeletable

\* the environment protects path p when told to
protect(fs, p, locked) ==
    IF locked THEN [fs EXCEPT !.undeletable = @ \cup {p}] ELSE fs

\* `if path and os.path.exists(path): os.unlink(path)` raises
unlink_if_exists_raises(fs, p) ==
    p # None /\ p \in fs.exists /\ unlink_raises(fs, p)

\* the guarded unlink without its os.path.exists test
unlink_if_exists_unguarded(fs, p) ==
    IF p # None /\ ~unlink_raises(fs, p) THEN unlink(fs, p) ELSE fs

\* `if path and os.path.exists(path): os.unlink(path)`, when it returns
unlink_if_exists(fs, p) ==
    IF p # None /\ p \in fs.exists /\ ~unlink_raises(fs, p) THEN unlink(fs, p) ELSE fs

\* the "Clean up on error" block of the three handlers raises: its unlink
\* calls stand in no try of their own
cleanup_on_error_raises(fs, in, out) ==
    unlink_if_exists_raises(fs, in) \/ unlink_if_exists_raises(fs, out)

\* the "Clean up on error" block of the three handlers: the second unlink is
\* not reached when the first raises
cleanup_on_error(fs, in, out) ==
    IF unlink_if_exists_raises(fs, in)
    THEN fs
    ELSE unlink_if_exists(unlink_if_exists(fs, in), out)

\* the unlink calls cleanup_on_error makes, for the trace
cleanup_events(fs, in, out) ==
    IF unlink_if_exists_raises(fs, in)
    THEN <<"unlink_in.raise">>
    ELSE (IF in # None /\ in \in fs.exists THEN <<"unlink_in">> ELSE <<>>) \o
         (IF unlink_if_exists_raises(fs, out) THEN <<"unlink_out.raise">>
          ELSE IF out # None /\ out \in fs.exists THEN <<"unlink_out">>
          ELSE <<>>)

\* the loop of FileHandler.cleanup_temp_files that stops at the first
\* os.unlink that raises
cleanup_temp_files_loop_stopping(fs, in, out) ==
    cleanup_on_error(fs, in, out)

\* the loop of FileHandler.cleanup_temp_files: every path in its own try
cleanup_temp_files_loop(fs, in, out) ==
    unlink_if_exists(unlink_if_exists(fs, in), out)

\* ---------------------------------------------------------------- codec
\* fitz (PyMuPDF), at the interface the controller uses.

\* fitz.open(path) raises on a file that is not a PDF
open_raises(fs, path, fault) == fault = "open" \/ fs.content[path].corrupt

\* doc.authenticate(password): truthy for an unencrypted document and for
\* the right password
authenticate(doc, password) == ~doc.encrypted \/ password = "right"

\* doc.save(path): writes the document without encryption (the default)
saved(doc) == [pages |-> doc.pages, encrypted |-> FALSE, corrupt |-> FALSE]

\* len(doc)
page_count(doc) == Len(doc.pages)

Max(a, b) == IF a >= b THEN a ELSE b
Min(a, b) == IF a <= b THEN a ELSE b

\* new_doc.insert_pdf(doc, from_page, to_page) into an empty document: the
\* library clamps from_page into the document, reads a negative or too large
\* to_page as the last page, and copies in descending order when
\* from_page > to_page.  Page indices are 0-based, page ids 1-based.
insert_pdf(doc, from_page, to_page) ==
    LET n  == page_count(doc)
        fp == Min(Max(from_page, 0), n - 1)
        tp == IF to_page < 0 THEN n - 1 ELSE Min(to_page, n - 1)
    IN  IF n = 0 THEN <<>>
        ELSE IF fp <= tp
        THEN [i \in 1..(tp - fp + 1) |-> doc.pages[fp + i]]
        ELSE [i \in 1..(fp - tp + 1) |-> doc.pages[fp + 2 - i]]

\* ----------------------------------------------- PDFController helpers
\* PDFController._unlock_pdf_file: [success, fs, ev]
unlock_pdf_file(fs, input_file, output_file, password, fault) ==
    LET doc == fs.content[input_file] IN
    IF open_raises(fs, input_file, fault)
    THEN [success |-> FALSE, fs |-> fs, ev |-> <<"open.raise">>]
    ELSE IF fault = "authenticate"
    THEN [success |-> FALSE, fs |-> fs, ev |-> <<"open", "authenticate.raise">>]
    ELSE IF authenticate(doc, password)
    THEN IF fault = "save"
         THEN [success |-> FALSE, fs |-> fs,
               ev |-> <<"open", "authenticate.ok", "save.raise">>]
         ELSE IF fault = "close"
         THEN [success |-> FALSE, fs |-> write(fs, output_file, saved(doc)),
               ev |-> <<"open", "authenticate.ok", "save", "close.raise">>]
         ELSE [success |-> TRUE, fs |-> write(fs, output_file, saved(doc)),
               ev |-> <<"open", "authenticate.ok", "save", "close">>]
    ELSE IF fault = "close"
         THEN [success |-> FALSE, fs |-> fs,
               ev |-> <<"open", "authenticate.rejected", "close.raise">>]
         ELSE [success |-> FALSE, fs |-> fs,
               ev |-> <<"open", "authenticate.rejected", "close">>]

\* PDFController._get_pdf_info: [raised, info, ev]
get_pdf_info_file(fs, input_file, include_metadata, fault) ==
    LET doc == fs.content[input_file] IN
    IF open_raises(fs, input_file, fault)
    THEN [raised |-> TRUE, info |-> NoDoc, ev |-> <<"open.raise">>]
    ELSE IF fault = "getsize"
    THEN [raised |-> TRUE, info |-> NoDoc, ev |-> <<"open", "getsize.raise">>]
    ELSE IF fault = "close"
    THEN [raised |-> TRUE, info |-> NoDoc, ev |-> <<"open", "close.raise">>]
    ELSE [raised |-> FALSE, info |-> doc, ev |-> <<"open", "close">>]

\* PDFController._create_pdf_subset: [result, message, fs, ev], result one of
\* "True", "False", "ValidationError".  The source is never authenticated here;
\* whether insert_pdf copies from a still encrypted source or raises is the
\* library's choice, and both are modelled (fault "insert_pdf" or none).
create_pdf_subset_file(fs, input_file, output_file, start_page, end_page, fault) ==
    LET doc == fs.content[input_file]
        total_pages == page_count(doc)
        start_idx == start_page - 1
        end_idx == end_page - 1
        new_doc == [pages |-> insert_pdf(doc, start_idx, end_idx),
                    encrypted |-> FALSE, corrupt |-> FALSE]
        R(res, msg, f, ev) == [result |-> res, message |-> msg, fs |-> f, ev |-> ev]
    IN
    IF open_raises(fs, input_file, fault)
    THEN R("False", "", fs, <<"open.raise">>)
    ELSE IF start_page > total_pages \/ end_page > total_pages
    THEN IF fault = "close"
         THEN R("False", "", fs, <<"open", "close.raise">>)
         ELSE R("ValidationError", "Page range out of bounds", fs, <<"open", "close">>)
    ELSE IF start_page < 1
    THEN IF fault = "close"
         THEN R("False", "", fs, <<"open", "close.raise">>)
         ELSE R("ValidationError", "Start page must be 1 or greater", fs,
                <<"open", "close">>)
    ELSE IF fault = "insert_pdf"
    THEN R("False", "", fs, <<"open", "new_doc", "insert_pdf.raise">>)
    ELSE IF fault = "save"
    THEN R("False", "", fs, <<"open", "new_doc", "insert_pdf", "save.raise">>)
    ELSE IF fault = "close"
    THEN R("False", "", write(fs, output_file, new_doc),
           <<"open", "new_doc", "insert_pdf", "save", "close.raise">>)
    ELSE R("True", "", write(fs, output_file, new_doc),
           <<"open", "new_doc", "insert_pdf", "save", "close_new", "close">>)


\* ------------------------------------------------ PDFController handlers
PdfError == "An error occurred while processing the PDF"

\* What a handler's try/except leaves behind: the response or exception, the
\* file system, the output path local, the calls made, the cleanup task.
Outcome(resp, fs, out, ev, tk) ==
    [resp |-> resp, fs |-> fs, out |-> out, ev |-> ev, tk |-> tk]

\* `except Exception`: clean up on error, raise ProcessingError.  An os.unlink
\* that raises here leaves the handler in place of the ProcessingError and
\* reaches the application's handler for Exception.
except_Exception(fs, in, out, ev) ==
    Outcome(IF cleanup_on_error_raises(fs, in, out)
            THEN global_exception_handler
            ELSE ProcessingError(PdfError),
            cleanup_on_error(fs, in, out), out,
            ev \o cleanup_events(fs, in, out), "none")

\* the handler without its `except ValidationError: raise` clause: the
\* ValidationError falls into `except Exception` and leaves as a ProcessingError
except_ValidationError_wrapped(message, fs, out, ev) ==
    Outcome(ProcessingError(PdfError), fs, out, ev, "none")

\* `except ValidationError: raise`
except_ValidationError(message, fs, out, ev) ==
    Outcome(ValidationError(message, ""), fs, out, ev, "none")

\* `file.filename or "document.pdf"`
original_filename(filename) ==
    IF filename = <<>> THEN <<"document.pdf">> ELSE filename

\* the tail of unlock_pdf and create_pdf_subset: read the output file, create
\* the cleanup task, build the Response.  Response encodes its header values
\* as latin-1; when that raises, the handler's `except Exception` runs with
\* the task already created.
respond(fs, c, in, p, ev, filename) ==
    IF c.fault = "read_out"
    THEN except_Exception(fs, in, p, ev \o <<"read_out.raise">>)
    ELSE IF encode_latin_1_raises(filename)
    THEN [except_Exception(fs, in, p,
                           ev \o <<"read_out", "create_task", "Response.raise">>)
             EXCEPT !.tk = "created"]
    ELSE Outcome(Response(fs.content[p], filename), fs, p,
                 ev \o <<"read_out", "create_task", "Response">>, "created")

\* unlock_pdf from the return of `await file.read()` on; p is the name the
\* second create_temp_file returns
unlock_pdf_body(fs, c, in, p) ==
    IF c.fault = "read"
    THEN except_Exception(fs, in, None, <<"read.raise">>)
    ELSE IF c.fault = "write"
    THEN except_Exception(fs, in, None, <<"read", "write.raise">>)
    ELSE IF c.fault = "create_out"
    THEN except_Exception(write(fs, in, c.upload), in, None,
                          <<"read", "write", "create_out.raise">>)
    ELSE
    LET fs2 == protect(create_temp_file(write(fs, in, c.upload), p), p,
                       "out" \in c.locked)
        u   == unlock_pdf_file(fs2, in, p, c.password, c.fault)
        ev  == <<"read", "write", "create_out">> \o u.ev
    IN  IF ~u.success
        THEN except_ValidationError(
                 "Failed to unlock PDF. Check if the password is correct.",
                 u.fs, p, ev)
        ELSE respond(u.fs, c, in, p, ev,
                     <<"unlocked_">> \o original_filename(c.filename))

\* get_pdf_info from the return of `await file.read()` on
get_pdf_info_body(fs, c, in) ==
    IF c.fault = "read"
    THEN except_Exception(fs, in, None, <<"read.raise">>)
    ELSE IF c.fault = "write"
    THEN except_Exception(fs, in, None, <<"read", "write.raise">>)
    ELSE
    LET fs1 == write(fs, in, c.upload)
        g   == get_pdf_info_file(fs1, in, c.include_metadata, c.fault)
        ev  == <<"read", "write">> \o g.ev
    IN  IF g.raised
        THEN except_Exception(fs1, in, None, ev)
        ELSE IF unlink_if_exists_raises(fs1, in)
        THEN \* the "Clean up" unlink raises inside the try
             except_Exception(fs1, in, None, ev \o <<"unlink_in.raise">>)
        ELSE Outcome(PDFInfoResponse(g.info), unlink_if_exists(fs1, in), None,
                     ev \o cleanup_events(fs1, in, None), "none")

\* create_pdf_subset from the return of `await file.read()` on
create_pdf_subset_body(fs, c, in, p) ==
    IF c.fault = "read"
    THEN except_Exception(fs, in, None, <<"read.raise">>)
    ELSE IF c.fault = "write"
    THEN except_Exception(fs, in, None, <<"read", "write.raise">>)
    ELSE IF c.fault = "create_out"
    THEN except_Exception(write(fs, in, c.upload), in, None,
                          <<"read", "write", "create_out.raise">>)
    ELSE
    LET fs2 == protect(create_temp_file(write(fs, in, c.upload), p), p,
                       "out" \in c.locked)
        s   == create_pdf_subset_file(fs2, in, p, c.start_page, c.end_page, c.fault)
        ev  == <<"read", "write", "create_out">> \o s.ev
    IN  IF s.result = "ValidationError"
        THEN except_ValidationError(s.message, s.fs, p, ev)
        ELSE IF s.result = "False"
        THEN \* ProcessingError("Failed to create PDF subset"), caught below
             except_Exception(s.fs, in, p, ev)
        ELSE respond(s.fs, c, in, p, ev,
                     <<"pages_">> \o str(c.start_page) \o <<"-">>
                         \o str(c.end_page) \o <<"_">>
                         \o original_filename(c.filename))

\* ---------------------------------------------------------------- actions
SetFS(fs) ==
    /\ exists' = fs.exists
    /\ used' = fs.used
    /\ content' = fs.content
    /\ unlinks' = fs.unlinks
    /\ undeletable' = fs.undeletable

\* the handler of request r returns or raises
Return(r, in, o) ==
    /\ pc' = [pc EXCEPT ![r] = "done"]
    /\ response' = [response EXCEPT ![r] = o.resp]
    /\ temp_input_path' = [temp_input_path EXCEPT ![r] = in]
    /\ temp_output_path' = [temp_output_path EXCEPT ![r] = o.out]
    /\ trace' = [trace EXCEPT ![r] = @ \o o.ev]
    /\ task' = [task EXCEPT ![r] = o.tk]
    /\ SetFS(o.fs)

\* the common head of the three handlers: the filename check, the first
\* create_temp_file, and the suspension in `await file.read()`
Enter(r, c) ==
    /\ pc[r] = "idle"
    /\ call' = [call EXCEPT ![r] = c]
    /\ IF NotAPdfName(c.filename)
       THEN Return(r, None,
                   Outcome(ValidationError("File must be a PDF", "file"),
                           FS, None, <<>>, "none"))
       ELSE IF c.fault = "create_in"
       THEN Return(r, None, except_Exception(FS, None, None, <<"create_in.raise">>))
       ELSE \E p \in NewNames(FS) :
              /\ pc' = [pc EXCEPT ![r] = "reading"]
              /\ temp_input_path' = [temp_input_path EXCEPT ![r] = p]
              /\ trace' = [trace EXCEPT ![r] = <<"create_in">>]
              /\ SetFS(protect(create_temp_file(FS, p), p, "in" \in c.locked))
              /\ UNCHANGED <<temp_output_path, response, task>>

NoCall ==
    [op |-> "none", filename |-> <<>>, upload |-> NoDoc, password |-> "",
     start_page |-> 0, end_page |-> 0, include_metadata |-> FALSE, fault |-> "none",
     locked |-> {}]

\* which of its temp files the environment refuses to unlink for a request
Locked == SUBSET {"in", "out"}

UnlockFaults ==
    {"none", "create_in", "read", "write", "create_out", "open", "authenticate",
     "save", "close", "read_out"}
InfoFaults == {"none", "create_in", "read", "write", "open", "getsize", "close"}
SubsetFaults ==
    {"none", "create_in", "read", "write", "create_out", "open", "insert_pdf",
     "save", "close", "read_out"}
PageNumbers == 0..(MaxPages + 1)

\* PDFController.unlock_pdf, up to its await
unlock_pdf(r) ==
    /\ pc[r] = "idle"
    /\ \E filename \in FileNames, upload \in Uploads, password \in Passwords,
          fault \in UnlockFaults, locked \in Locked :
          Enter(r, [NoCall EXCEPT !.op = "unlock", !.filename = filename,
                                  !.upload = upload, !.password = password,
                                  !.fault = fault, !.locked = locked])
    /\ UNCHANGED img

\* PDFController.unlock_pdf, resumed
unlock_pdf_resume(r) ==
    /\ pc[r] = "reading"
    /\ call[r].op = "unlock"
    /\ \E p \in NewNames(FS) :
          Return(r, temp_input_path[r],
                 unlock_pdf_body(FS, call[r], temp_input_path[r], p))
    /\ UNCHANGED <<call, img>>

\* PDFController.get_pdf_info, up to its await
get_pdf_info(r) ==
    /\ pc[r] = "idle"
    /\ \E filename \in FileNames, upload \in Uploads, include_metadata \in BOOLEAN,
          fault \in InfoFaults, locked \in {{}, {"in"}} :
          Enter(r, [NoCall EXCEPT !.op = "info", !.filename = filename,
                                  !.upload = upload,
                                  !.include_metadata = include_metadata,
                                  !.fault = fault, !.locked = locked])
    /\ UNCHANGED img

\* PDFController.get_pdf_info, resumed
get_pdf_info_resume(r) ==
    /\ pc[r] = "reading"
    /\ call[r].op = "info"
    /\ Return(r, temp_input_path[r],
              get_pdf_info_body(FS, call[r], temp_input_path[r]))
    /\ UNCHANGED <<call, img>>

\* PDFController.create_pdf_subset, up to its await
create_pdf_subset(r) ==
    /\ pc[r] = "idle"
    /\ \E filename \in FileNames, upload \in Uploads,
          start_page \in PageNumbers, end_page \in PageNumbers,
          fault \in SubsetFaults, locked \in Locked :
          Enter(r, [NoCall EXCEPT !.op = "subset", !.filename = filename,
                                  !.upload = upload, !.start_page = start_page,
                                  !.end_page = end_page, !.fault = fault,
                                  !.locked = locked])
    /\ UNCHANGED img

\* PDFController.create_pdf_subset, resumed
create_pdf_subset_resume(r) ==
    /\ pc[r] = "reading"
    /\ call[r].op = "subset"
    /\ \E p \in NewNames(FS) :
          Return(r, temp_input_path[r],
                 create_pdf_subset_body(FS, call[r], temp_input_path[r], p))
    /\ UNCHANGED <<call, img>>

\* the cleanup task without its sleep: the unlink loop runs at once
cleanup_temp_files_without_sleep(r) ==
    /\ task[r] = "created"
    /\ task' = [task EXCEPT ![r] = "done"]
    /\ SetFS(cleanup_temp_files_loop(FS, temp_input_path[r], temp_output_path[r]))
    /\ UNCHANGED <<pc, call, temp_input_path, temp_output_path, response, trace, img>>

\* FileHandler.cleanup_temp_files, up to `await asyncio.sleep(1)`
cleanup_temp_files_start(r) ==
    /\ task[r] = "created"
    /\ task' = [task EXCEPT ![r] = "sleeping"]
    /\ UNCHANGED <<pc, call, temp_input_path, temp_output_path, response, trace,
                   exists, used, content, unlinks, undeletable, img>>

\* FileHandler.cleanup_temp_files, after the sleep: the loop over file_paths
cleanup_temp_files(r) ==
    /\ task[r] = "sleeping"
    /\ task' = [task EXCEPT ![r] = "done"]
    /\ SetFS(cleanup_temp_files_loop(FS, temp_input_path[r], temp_output_path[r]))
    /\ UNCHANGED <<pc, call, temp_input_path, temp_output_path, response, trace, img>>



\* ======================================================= ImageController
\* the download ceiling of _download_image_from_url, in bytes
MaxDownload == 10 * 1024 * 1024

\* An encoded image as a request carries it: absent (None or empty), bytes
\* Image.open rejects, or bytes Image.open identifies: the size, colour mode
\* and format of their header, whether the pixel data after the header is cut
\* short (Image.open is lazy: it reads the header only), and how many bytes.
NoPayload ==
    [present |-> FALSE, decodes |-> FALSE, width |-> 0, height |-> 0,
     mode |-> "", format |-> "", truncated |-> FALSE, length |-> 0]
BadPayload ==
    [present |-> TRUE, decodes |-> FALSE, width |-> 0, height |-> 0,
     mode |-> "", format |-> "", truncated |-> FALSE, length |-> 1]
Encoded(W, H, mode, format, truncated, length) ==
    [present |-> TRUE, decodes |-> TRUE, width |-> W, height |-> H,
     mode |-> mode, format |-> format, truncated |-> truncated,
     length |-> length]
\* a complete RGB PNG
Picture(W, H) == Encoded(W, H, "RGB", "PNG", FALSE, W * H + 1)

Dims == 1..MaxDim
Pictures == {Picture(W, H) : W \in Dims, H \in Dims}

\* What a GET of image_url yields: no URL given; the request failing
\* ("connect", "timeout", "status": httpx.HTTPError subclasses; "invalid_url":
\* httpx.InvalidURL, which is not one); or a response with a content-type
\* header, as <<type, subtype>>, and a body.
NoUrl ==
    [present |-> FALSE, failure |-> "none", content_type |-> <<"", "">>,
     payload |-> NoPayload]
FailedUrl(failure) ==
    [present |-> TRUE, failure |-> failure, content_type |-> <<"", "">>,
     payload |-> NoPayload]
DeadUrl == FailedUrl("connect")
ServedUrl(content_type, payload) ==
    [present |-> TRUE, failure |-> "none", content_type |-> content_type,
     payload |-> payload]
LiveUrl(payload) == ServedUrl(<<"image", "png">>, payload)

\* a PIL image: where it came from, its size and mode, the format attribute
\* ("" for None), and whether loading its pixel data will fail
NoImage ==
    [origin |-> "none", width |-> 0, height |-> 0, mode |-> "", format |-> "",
     truncated |-> FALSE]
\* Image.open(io.BytesIO(payload))
OpenImage(origin, payload) ==
    [origin |-> origin, width |-> payload.width, height |-> payload.height,
     mode |-> payload.mode, format |-> payload.format,
     truncated |-> payload.truncated]

\* str.upper() on the format names the model uses
upper(format) ==
    CASE format = "png" -> "PNG"
      [] format = "jpg" -> "JPG"
      [] format = "jpeg" -> "JPEG"
      [] format = "gif" -> "GIF"
      [] format = "bmp" -> "BMP"
      [] format = "webp" -> "WEBP"
      [] format = "tiff" -> "TIFF"
      [] OTHER -> format

\* the supported set with TIFF let in
SUPPORTED_FORMATS_and_TIFF == {"PNG", "JPEG", "JPG", "GIF", "BMP", "WEBP", "TIFF"}

\* ImageController.SUPPORTED_FORMATS
SUPPORTED_FORMATS == {"PNG", "JPEG", "JPG", "GIF", "BMP", "WEBP"}

ImageValidationError(message, field) ==
    [kind |-> "ValidationError", status_code |-> 400, message |-> message,
     field |-> field]
ImageProcessingError(message) ==
    [kind |-> "ProcessingError", status_code |-> 500, message |-> message,
     field |-> ""]
ImageResponse ==
    [kind |-> "ImageResponse", status_code |-> 200, message |-> "", field |-> ""]

\* what source resolution leaves: an image or a raised ValidationError,
\* whether the URL was fetched, and whether a decode (base64.b64decode,
\* Image.open) was attempted on a payload
Resolved(image, fetched) ==
    [raised |-> FALSE, error |-> ImageResponse, image |-> image,
     fetched |-> fetched, opened |-> image.origin # "none"]
\* raised before any decode
Rejected(error, fetched) ==
    [raised |-> TRUE, error |-> error, image |-> NoImage, fetched |-> fetched,
     opened |-> FALSE]
\* raised by the decode, or after it
Undecodable(error, fetched) ==
    [raised |-> TRUE, error |-> error, image |-> NoImage, fetched |-> fetched,
     opened |-> TRUE]

\* the picture _decode_base64_image builds for a mode other than RGB:
\* Image.new("RGB", image.size, white) with the source pasted, or
\* image.convert("RGB"); either is a new image, whose format attribute is None
Composited(origin, image_data) ==
    [origin |-> origin, width |-> image_data.width, height |-> image_data.height,
     mode |-> "RGB", format |-> "", truncated |-> FALSE]

\* ImageController._decode_base64_image.  split(), paste() and convert() load
\* the pixel data, so a truncated payload raises inside the try block.
decode_base64_image(image_data) ==
    IF ~image_data.decodes
    THEN Undecodable(ImageValidationError("Invalid image data", "image_data"), FALSE)
    ELSE IF image_data.mode # "RGB"
    THEN IF image_data.truncated
         THEN Undecodable(ImageValidationError("Invalid image data", "image_data"),
                          FALSE)
         ELSE Resolved(Composited("image_data", image_data), FALSE)
    ELSE Resolved(OpenImage("image_data", image_data), FALSE)

\* str.lower() on the content-type header
lower_content_type(content_type) ==
    << CASE content_type[1] = "IMAGE" -> "image"
         [] content_type[1] = "Image" -> "image"
         [] OTHER -> content_type[1],
       content_type[2] >>

\* content_type.startswith("image/")
startswith_image(content_type) == content_type[1] = "image"

\* the download without its content-type and size checks
download_image_from_url_unchecked(image_url) ==
    IF image_url.failure \in {"connect", "timeout", "status"}
    THEN [raised |-> TRUE,
          error |-> ImageValidationError("Failed to download image from URL",
                                         "image_url"),
          content |-> NoPayload]
    ELSE IF image_url.failure = "invalid_url"
    THEN [raised |-> TRUE,
          error |-> ImageValidationError("Invalid URL or network error",
                                         "image_url"),
          content |-> NoPayload]
    ELSE [raised |-> FALSE, error |-> ImageResponse,
          content |-> image_url.payload]

\* ImageController._download_image_from_url: the bytes, or the ValidationError
\* raised.  The two ValidationErrors raised inside the try block are caught by
\* `except Exception` and raised again as "Invalid URL or network error".
download_image_from_url(image_url) ==
    IF image_url.failure \in {"connect", "timeout", "status"}
    THEN [raised |-> TRUE,
          error |-> ImageValidationError("Failed to download image from URL",
                                         "image_url"),
          content |-> NoPayload]
    ELSE IF image_url.failure = "invalid_url"
    THEN [raised |-> TRUE,
          error |-> ImageValidationError("Invalid URL or network error",
                                         "image_url"),
          content |-> NoPayload]
    ELSE IF ~startswith_image(lower_content_type(image_url.content_type))
    THEN [raised |-> TRUE,
          error |-> ImageValidationError("Invalid URL or network error",
                                         "image_url"),
          content |-> NoPayload]
    ELSE IF image_url.payload.length > MaxDownload
    THEN [raised |-> TRUE,
          error |-> ImageValidationError("Invalid URL or network error",
                                         "image_url"),
          content |-> NoPayload]
    ELSE [raised |-> FALSE, error |-> ImageResponse,
          content |-> image_url.payload]

\* the image_url branch of _get_image_from_request_async: the download
\* followed by Image.open
image_from_url(image_url) ==
    LET d == download_image_from_url(image_url) IN
    IF d.raised
    THEN Rejected(d.error, TRUE)
    ELSE IF d.content.decodes
    THEN Resolved(OpenImage("image_url", d.content), TRUE)
    ELSE Undecodable(ImageValidationError("Invalid image from URL", "image_url"),
                     TRUE)

\* the resolver with the URL branch tried before the inline payload
get_image_from_request_async_url_first(request, file_data) ==
    IF file_data.present
    THEN IF file_data.decodes
         THEN Resolved(OpenImage("file", file_data), FALSE)
         ELSE Undecodable(ImageValidationError("Invalid image file", "file"), FALSE)
    ELSE IF request.image_url.present
    THEN image_from_url(request.image_url)
    ELSE IF request.image_data.present
    THEN decode_base64_image(request.image_data)
    ELSE Rejected(ImageValidationError("No valid image source provided",
                                       "image_data"), FALSE)

\* ImageController._get_image_from_request_async
get_image_from_request_async(request, file_data) ==
    IF file_data.present
    THEN IF file_data.decodes
         THEN Resolved(OpenImage("file", file_data), FALSE)
         ELSE Undecodable(ImageValidationError("Invalid image file", "file"), FALSE)
    ELSE IF request.image_data.present
    THEN decode_base64_image(request.image_data)
    ELSE IF request.image_url.present
    THEN image_from_url(request.image_url)
    ELSE Rejected(ImageValidationError("No valid image source provided",
                                       "image_data"), FALSE)

\* round() in place of int(): to the nearest integer
int_div_rounded(a, b) == (2 * a + b) \div (2 * b)

\* Python's int() of a positive quotient a / b: truncation.  The code computes
\* the quotients in double precision; for the sizes of this model (up to 8) the
\* double results and the exact ones truncate to the same integer.
int_div(a, b) == a \div b

\* the branch test of resize_image turned around (< for >)
resize_image_new_size_flipped(image, width, height, maintain_aspect_ratio) ==
    IF maintain_aspect_ratio
    THEN IF width * image.height < image.width * height
         THEN <<(height * image.width) \div image.height, height>>
         ELSE <<width, (width * image.height) \div image.width>>
    ELSE <<width, height>>

\* resize_image, "Calculate new dimensions": <<new_width, new_height>>
resize_image_new_size(image, width, height, maintain_aspect_ratio) ==
    IF maintain_aspect_ratio
    THEN \* width / height > original_width / original_height
         IF width * image.height > image.width * height
         THEN <<int_div(height * image.width, image.height), height>>
         ELSE <<width, int_div(width * image.height, image.width)>>
    ELSE <<width, height>>

\* resize_image_file, "Calculate new dimensions": <<new_width, new_height>>
resize_image_file_new_size(image, width, height, maintain_aspect_ratio) ==
    IF maintain_aspect_ratio
    THEN IF width * image.height > image.width * height
         THEN <<int_div(height * image.width, image.height), height>>
         ELSE <<width, int_div(width * image.height, image.width)>>
    ELSE <<width, height>>

\* image.resize(size, LANCZOS) raises on a size with a zero side
resize_raises(size) == size[1] < 1 \/ size[2] < 1

\* image.resize(size): a new image of the same mode, format attribute None
Resized(image, size) ==
    [origin |-> image.origin, width |-> size[1], height |-> size[2],
     mode |-> image.mode, format |-> "", truncated |-> FALSE]

\* ---- _encode_image_to_base64
\* the longest encoding the model lets the encoder write, in bytes
MaxBytes == 4
EncodedLens == 1..MaxBytes

\* format_map.get(format.upper(), "PNG"), applied to the upper-cased name
format_map(format) ==
    CASE format = "JPEG" -> "JPEG"
      [] format = "JPG" -> "JPEG"
      [] format = "PNG" -> "PNG"
      [] format = "GIF" -> "GIF"
      [] format = "BMP" -> "BMP"
      [] format = "WEBP" -> "WEBP"
      [] OTHER -> "PNG"

\* image.save(buffer, format=pil_format) raises when the pixel data cannot be
\* loaded and when the encoder cannot write the mode: the JPEG encoder writes
\* neither alpha nor palette modes, the BMP encoder no LA
save_raises(image, pil_format) ==
    \/ image.truncated
    \/ pil_format = "JPEG" /\ image.mode \in {"RGBA", "LA", "P"}
    \/ pil_format = "BMP" /\ image.mode = "LA"

\* base64 text: what its bytes decode to (format and size of the image, number
\* of bytes) and its number of characters
NoText == [format |-> "", width |-> 0, height |-> 0, nbytes |-> 0, chars |-> 0]

\* base64.b64encode written with the byte count for the character count
b64encode_unexpanded(format, width, height, nbytes) ==
    [format |-> format, width |-> width, height |-> height, nbytes |-> nbytes,
     chars |-> nbytes]

\* base64.b64encode(...).decode("utf-8"): four characters for every three
\* bytes, the last group padded
b64encode(format, width, height, nbytes) ==
    [format |-> format, width |-> width, height |-> height, nbytes |-> nbytes,
     chars |-> 4 * ((nbytes + 2) \div 3)]

\* len() of a text
len(text) == text.chars

\* ImageController._encode_image_to_base64; nbytes is the number of bytes the
\* encoder writes for this image
encode_image_to_base64(image, format, nbytes) ==
    LET pil_format == format_map(upper(format)) IN
    IF save_raises(image, pil_format)
    THEN [raised |-> TRUE, text |-> NoText]
    ELSE [raised |-> FALSE,
          text |-> b64encode(pil_format, image.width, image.height, nbytes)]

\* ---- what a request leaves in img
\* validator.ImageResponse(result, format, size)
NoOut == [result |-> NoText, format |-> "", size |-> 0]
\* validator.ImageInfoResponse(format, size, dimensions, width, height)
NoInfo == [format |-> "", size |-> 0, dimensions |-> <<0, "x", 0>>,
           width |-> 0, height |-> 0]
\* the HTTP answer: status and, of the JSON body, detail.error_type,
\* detail.error_code and detail.field ("" where the body has no such key)
NoHttp == [status_code |-> 0, error_type |-> "", error_code |-> "", field |-> ""]
NoResult == [kind |-> "none", status_code |-> 0, message |-> "", field |-> ""]
ImageInfoResponse ==
    [kind |-> "ImageInfoResponse", status_code |-> 200, message |-> "",
     field |-> ""]

ImgResult(op, request, file_data, result, src, size) ==
    [op |-> op, request |-> request, file_data |-> file_data, result |-> result,
     image |-> src.image, fetched |-> src.fetched, opened |-> src.opened,
     new_width |-> size[1], new_height |-> size[2],
     content_type |-> <<"", "">>, out |-> NoOut, info |-> NoInfo,
     http |-> NoHttp]

NotResolved == Resolved(NoImage, FALSE)

\* validator.ConvertRequest; the other request models are this record with
\* the fields they lack left at a default
ConvertRequest(image_data, image_url, width, height, keep_ratio, format, target_format) ==
    [image_data |-> image_data, image_url |-> image_url, width |-> width,
     height |-> height, maintain_aspect_ratio |-> keep_ratio,
     format |-> format, target_format |-> target_format]

\* validator.ResizeRequest
ImageRequest(image_data, image_url, width, height, maintain_aspect_ratio, format) ==
    ConvertRequest(image_data, image_url, width, height, maintain_aspect_ratio,
                   format, "")

\* no image request handled yet
NoImg ==
    ImgResult("none", ImageRequest(NoPayload, NoUrl, 0, 0, FALSE, ""), NoPayload,
              NoResult, NotResolved, <<0, 0>>)

\* ImageResponse(result=result_data, format=..., size=len(result_data))
Answered(i, result_data, format) ==
    [i EXCEPT !.result = ImageResponse,
              !.out = [result |-> result_data, format |-> format,
                       size |-> len(result_data)]]

\* ---- ImageController operations: the value of img when the call returns
\* or raises; nbytes is the number of bytes the encoder writes
\* ImageController.resize_image
resize_image_result(request, nbytes) ==
    IF ~request.image_data.present /\ ~request.image_url.present
    THEN ImgResult("resize_image", request, NoPayload,
                   ImageValidationError("Either image_data or image_url must be provided",
                                        "image_data"),
                   NotResolved, <<0, 0>>)
    ELSE IF request.width <= 0 \/ request.height <= 0
    THEN ImgResult("resize_image", request, NoPayload,
                   ImageValidationError("Width and height must be positive", "width"),
                   NotResolved, <<0, 0>>)
    ELSE IF upper(request.format) \notin SUPPORTED_FORMATS
    THEN ImgResult("resize_image", request, NoPayload,
                   ImageValidationError("Unsupported image format", "format"),
                   NotResolved, <<0, 0>>)
    ELSE
    LET src == get_image_from_request_async(request, NoPayload) IN
    IF src.raised
    THEN ImgResult("resize_image", request, NoPayload, src.error, src, <<0, 0>>)
    ELSE
    LET size == resize_image_new_size(src.image, request.width, request.height,
                                      request.maintain_aspect_ratio)
        failed == ImgResult("resize_image", request, NoPayload,
                            ImageProcessingError("Error resizing image"), src, size)
    IN
    IF src.image.truncated \/ resize_raises(size)
    THEN failed
    ELSE
    LET e == encode_image_to_base64(Resized(src.image, size), request.format,
                                    nbytes) IN
    IF e.raised
    THEN failed
    ELSE Answered(failed, e.text, upper(request.format))

\* ImageController.resize_image_file
resize_image_file_result(request, file_data, nbytes) ==
    IF request.width <= 0 \/ request.height <= 0
    THEN ImgResult("resize_image_file", request, file_data,
                   ImageValidationError("Width and height must be positive", "width"),
                   NotResolved, <<0, 0>>)
    ELSE IF upper(request.format) \notin SUPPORTED_FORMATS
    THEN ImgResult("resize_image_file", request, file_data,
                   ImageValidationError("Unsupported image format", "format"),
                   NotResolved, <<0, 0>>)
    ELSE
    LET src == get_image_from_request_async(request, file_data) IN
    IF src.raised
    THEN ImgResult("resize_image_file", request, file_data, src.error, src, <<0, 0>>)
    ELSE
    LET size == resize_image_file_new_size(src.image, request.width, request.height,
                                           request.maintain_aspect_ratio)
        failed == ImgResult("resize_image_file", request, file_data,
                            ImageProcessingError("Error resizing image"), src, size)
    IN
    IF src.image.truncated \/ resize_raises(size)
    THEN failed
    ELSE
    LET e == encode_image_to_base64(Resized(src.image, size), request.format,
                                    nbytes) IN
    IF e.raised
    THEN failed
    ELSE Answered(failed, e.text, upper(request.format))

\* convert_image with the format check ahead of the source check
convert_image_result_format_first(request, nbytes) ==
    IF upper(request.format) \notin SUPPORTED_FORMATS
    THEN ImgResult("convert_image", request, NoPayload,
                   ImageValidationError("Unsupported source format", "format"),
                   NotResolved, <<0, 0>>)
    ELSE IF ~request.image_data.present /\ ~request.image_url.present
    THEN ImgResult("convert_image", request, NoPayload,
                   ImageValidationError("Either image_data or image_url must be provided",
                                        "image_data"),
                   NotResolved, <<0, 0>>)
    ELSE IF upper(request.target_format) \notin SUPPORTED_FORMATS
    THEN ImgResult("convert_image", request, NoPayload,
                   ImageValidationError("Unsupported target format", "target_format"),
                   NotResolved, <<0, 0>>)
    ELSE
    LET src == get_image_from_request_async(request, NoPayload) IN
    IF src.raised
    THEN ImgResult("convert_image", request, NoPayload, src.error, src, <<0, 0>>)
    ELSE
    LET e == encode_image_to_base64(src.image, request.target_format, nbytes)
        failed == ImgResult("convert_image", request, NoPayload,
                            ImageProcessingError("Error converting image"), src,
                            <<0, 0>>)
    IN
    IF e.raised
    THEN failed
    ELSE Answered(failed, e.text, upper(request.target_format))

\* ImageController.convert_image
convert_image_result(request, nbytes) ==
    IF ~request.image_data.present /\ ~request.image_url.present
    THEN ImgResult("convert_image", request, NoPayload,
                   ImageValidationError("Either image_data or image_url must be provided",
                                        "image_data"),
                   NotResolved, <<0, 0>>)
    ELSE IF upper(request.format) \notin SUPPORTED_FORMATS
    THEN ImgResult("convert_image", request, NoPayload,
                   ImageValidationError("Unsupported source format", "format"),
                   NotResolved, <<0, 0>>)
    ELSE IF upper(request.target_format) \notin SUPPORTED_FORMATS
    THEN ImgResult("convert_image", request, NoPayload,
                   ImageValidationError("Unsupported target format", "target_format"),
                   NotResolved, <<0, 0>>)
    ELSE
    LET src == get_image_from_request_async(request, NoPayload) IN
    IF src.raised
    THEN ImgResult("convert_image", request, NoPayload, src.error, src, <<0, 0>>)
    ELSE
    LET e == encode_image_to_base64(src.image, request.target_format, nbytes)
        failed == ImgResult("convert_image", request, NoPayload,
                            ImageProcessingError("Error converting image"), src,
                            <<0, 0>>)
    IN
    IF e.raised
    THEN failed
    ELSE Answered(failed, e.text, upper(request.target_format))

\* ImageController.convert_image_file
convert_image_file_result(request, file_data, nbytes) ==
    IF upper(request.format) \notin SUPPORTED_FORMATS
    THEN ImgResult("convert_image_file", request, file_data,
                   ImageValidationError("Unsupported source format", "format"),
                   NotResolved, <<0, 0>>)
    ELSE IF upper(request.target_format) \notin SUPPORTED_FORMATS
    THEN ImgResult("convert_image_file", request, file_data,
                   ImageValidationError("Unsupported target format", "target_format"),
                   NotResolved, <<0, 0>>)
    ELSE
    LET src == get_image_from_request_async(request, file_data) IN
    IF src.raised
    THEN ImgResult("convert_image_file", request, file_data, src.error, src, <<0, 0>>)
    ELSE
    LET e == encode_image_to_base64(src.image, request.target_format, nbytes)
        failed == ImgResult("convert_image_file", request, file_data,
                            ImageProcessingError("Error converting image"), src,
                            <<0, 0>>)
    IN
    IF e.raised
    THEN failed
    ELSE Answered(failed, e.text, upper(request.target_format))

\* `image.format or "Unknown"`, `image.format or "PNG"`
format_or(format, default) == IF format = "" THEN default ELSE format

\* ImageInfoResponse(format, size, dimensions=f"{width}x{height}", width, height)
InfoAnswered(i, image, file_size) ==
    [i EXCEPT !.result = ImageInfoResponse,
              !.info = [format |-> format_or(image.format, "Unknown"),
                        size |-> file_size,
                        dimensions |-> <<image.width, "x", image.height>>,
                        width |-> image.width, height |-> image.height]]

\* ImageController.get_image_info.  len(request.image_data) counts the
\* characters of the base64 text the client sent; for a URL source the size is
\* that of a fresh encoding of the image.
get_image_info_result(request, nbytes) ==
    IF ~request.image_data.present /\ ~request.image_url.present
    THEN ImgResult("get_image_info", request, NoPayload,
                   ImageValidationError("Either image_data or image_url must be provided",
                                        "image_data"),
                   NotResolved, <<0, 0>>)
    ELSE
    LET src == get_image_from_request_async(request, NoPayload) IN
    IF src.raised
    THEN ImgResult("get_image_info", request, NoPayload, src.error, src, <<0, 0>>)
    ELSE
    LET failed == ImgResult("get_image_info", request, NoPayload,
                            ImageProcessingError("Error getting image info"), src,
                            <<0, 0>>)
    IN
    IF request.image_data.present
    THEN InfoAnswered(failed, src.image,
                      len(b64encode(request.image_data.format,
                                    request.image_data.width,
                                    request.image_data.height,
                                    request.image_data.length)))
    ELSE IF save_raises(src.image, format_or(src.image.format, "PNG"))
    THEN failed
    ELSE InfoAnswered(failed, src.image, nbytes)

\* ImageController.get_image_info_file
get_image_info_file_result(request, file_data) ==
    LET src == get_image_from_request_async(request, file_data) IN
    IF src.raised
    THEN ImgResult("get_image_info_file", request, file_data, src.error, src,
                   <<0, 0>>)
    ELSE InfoAnswered(ImgResult("get_image_info_file", request, file_data,
                                ImageProcessingError("Error getting image info"),
                                src, <<0, 0>>),
                      src.image, file_data.length)

\* ---- routes (image/__init__.py)
Ok == [status_code |-> 200, error_type |-> "", error_code |-> "", field |-> ""]

\* FastAPI's handler of HTTPException: the exception's status code, and its
\* detail dictionary as the body's "detail"
http_exception_handler(error) ==
    [status_code |-> error.status_code,
     error_type |-> IF error.kind = "ValidationError" THEN "validation_error"
                    ELSE "processing_error",
     error_code |-> IF error.kind = "ProcessingError" THEN "PROCESSING_ERROR"
                    ELSE "",
     field |-> error.field]

\* JSONResponse(status_code=..., content={"detail": <a string>})
JSONResponse(status_code) ==
    [status_code |-> status_code, error_type |-> "", error_code |-> "",
     field |-> ""]

\* the JSON routes: `return await ImageController.<operation>(request)`
json_route(called) ==
    [called EXCEPT !.http = IF called.result.status_code = 200 THEN Ok
                            ELSE http_exception_handler(called.result)]

\* the file routes without their content-type check
file_route_unchecked(op, content_type, request, called) ==
    [called EXCEPT !.content_type = content_type,
                   !.http = IF called.result.status_code = 200 THEN Ok
                            ELSE JSONResponse(400)]

\* the file routes: the content-type check (on a rejected upload the file is
\* not read and the controller not called), the controller call, and
\* `except Exception as e: return JSONResponse(status_code=400, ...)`
file_route(op, content_type, request, called) ==
    IF content_type[1] = "" \/ ~startswith_image(content_type)
    THEN [ImgResult(op, request, NoPayload, NoResult, NotResolved, <<0, 0>>)
             EXCEPT !.content_type = content_type, !.http = JSONResponse(400)]
    ELSE [called EXCEPT !.content_type = content_type,
                        !.http = IF called.result.status_code = 200 THEN Ok
                                 ELSE JSONResponse(400)]

\* ---- the requests the model sends
Widths == 0..MaxDim
Formats == {"png", "tiff"}
InlinePayloads == {NoPayload, BadPayload} \cup Pictures
\* a remote picture is told from an inline one by its origin; two shapes suffice
Urls == {NoUrl, DeadUrl, LiveUrl(BadPayload), LiveUrl(Picture(1, 2)),
         LiveUrl(Picture(2, 1))}

\* payloads in other modes and formats, and payloads cut short
Truncated == Encoded(2, 1, "RGB", "PNG", TRUE, 2)
ModePayloads ==
    { Encoded(2, 1, "RGBA", "PNG", FALSE, 3),
      Encoded(1, 2, "P", "GIF", FALSE, 3),
      Encoded(1, 1, "LA", "PNG", FALSE, 2),
      Encoded(2, 2, "L", "JPEG", FALSE, 4),
      Encoded(1, 1, "RGBA", "PNG", TRUE, 2),
      Truncated }
\* the other outcomes of a download
DownloadUrls ==
    { FailedUrl("timeout"), FailedUrl("status"), FailedUrl("invalid_url"),
      ServedUrl(<<"text", "html">>, Picture(1, 1)),
      ServedUrl(<<"IMAGE", "PNG">>, Picture(1, 1)),
      LiveUrl(Encoded(1, 1, "RGB", "PNG", FALSE, MaxDownload)),
      LiveUrl(Encoded(1, 1, "RGB", "PNG", FALSE, MaxDownload + 1)),
      LiveUrl(Encoded(2, 1, "RGBA", "PNG", FALSE, 3)),
      LiveUrl(Truncated) }

SomePayloads == {NoPayload, BadPayload, Picture(1, 2)} \cup ModePayloads
SomeUrls == {NoUrl, DeadUrl, LiveUrl(BadPayload), LiveUrl(Picture(1, 2))}
                \cup DownloadUrls
SomeWidths == 1..2
OutFormats == {"png", "jpeg", "JPG"}
TargetFormats == {"png", "PNG", "jpeg", "JPG", "gif", "bmp", "webp", "tiff"}
ContentTypes ==
    {<<"image", "png">>, <<"IMAGE", "PNG">>, <<"application", "pdf">>, <<"", "">>}

ResizeRequests ==
    { ImageRequest(image_data, image_url, width, height, maintain_aspect_ratio,
                   format) :
          image_data \in InlinePayloads, image_url \in Urls,
          width \in Widths, height \in Widths,
          maintain_aspect_ratio \in BOOLEAN, format \in Formats }
    \cup
    { ImageRequest(image_data, image_url, width, height, maintain_aspect_ratio,
                   format) :
          image_data \in {NoPayload} \cup ModePayloads, image_url \in SomeUrls,
          width \in SomeWidths, height \in SomeWidths,
          maintain_aspect_ratio \in BOOLEAN, format \in OutFormats }

\* the request model of the file routes has no image_data and no image_url
ResizeFileRequests ==
    { ImageRequest(NoPayload, NoUrl, width, height, maintain_aspect_ratio, format) :
          width \in Widths, height \in Widths,
          maintain_aspect_ratio \in BOOLEAN, format \in Formats \cup OutFormats }

ConvertRequests ==
    { ConvertRequest(image_data, image_url, 0, 0, FALSE, format, target_format) :
          image_data \in SomePayloads, image_url \in SomeUrls,
          format \in Formats, target_format \in TargetFormats }

ConvertFileRequests ==
    { ConvertRequest(NoPayload, NoUrl, 0, 0, FALSE, format, target_format) :
          format \in Formats, target_format \in TargetFormats }

InfoRequests ==
    { ImageRequest(image_data, image_url, 0, 0, FALSE, "png") :
          image_data \in SomePayloads, image_url \in SomeUrls }

\* ---- actions.  Requests share no state, so one request per behaviour
\* covers the controller.
\* POST /resize
resize_image ==
    /\ img = NoImg
    /\ \E request \in ResizeRequests, nbytes \in EncodedLens :
          img' = json_route(resize_image_result(request, nbytes))
    /\ UNCHANGED pdfVars

\* POST /resize/file
resize_image_file ==
    /\ img = NoImg
    /\ \E request \in ResizeFileRequests, nbytes \in EncodedLens :
          \/ \E file_data \in InlinePayloads :
                img' = file_route("resize_image_file", <<"image", "png">>, request,
                           resize_image_file_result(request, file_data, nbytes))
          \/ \E file_data \in ModePayloads, content_type \in ContentTypes :
                img' = file_route("resize_image_file", content_type, request,
                           resize_image_file_result(request, file_data, nbytes))
    /\ UNCHANGED pdfVars

\* POST /convert
convert_image ==
    /\ img = NoImg
    /\ \E request \in ConvertRequests, nbytes \in EncodedLens :
          img' = json_route(convert_image_result(request, nbytes))
    /\ UNCHANGED pdfVars

\* POST /convert/file
convert_image_file ==
    /\ img = NoImg
    /\ \E request \in ConvertFileRequests, nbytes \in EncodedLens,
          file_data \in SomePayloads, content_type \in ContentTypes :
          img' = file_route("convert_image_file", content_type, request,
                     convert_image_file_result(request, file_data, nbytes))
    /\ UNCHANGED pdfVars

\* POST /info
get_image_info ==
    /\ img = NoImg
    /\ \E request \in InfoRequests, nbytes \in EncodedLens :
          img' = json_route(get_image_info_result(request, nbytes))
    /\ UNCHANGED pdfVars

\* POST /info/file
get_image_info_file ==
    /\ img = NoImg
    /\ \E file_data \in SomePayloads, content_type \in ContentTypes,
          format \in Formats :
          img' = file_route("get_image_info_file", content_type,
                     ImageRequest(NoPayload, NoUrl, 0, 0, FALSE, format),
                     get_image_info_file_result(
                         ImageRequest(NoPayload, NoUrl, 0, 0, FALSE, format),
                         file_data))
    /\ UNCHANGED pdfVars

Init ==
    /\ pc = [r \in Requests |-> "idle"]
    /\ call = [r \in Requests |-> NoCall]
    /\ temp_input_path = [r \in Requests |-> None]
    /\ temp_output_path = [r \in Requests |-> None]
    /\ response = [r \in Requests |-> NoResponse]
    /\ trace = [r \in Requests |-> <<>>]
    /\ task = [r \in Requests |-> "none"]
    /\ exists = {}
    /\ used = {}
    /\ content = [p \in Paths |-> EmptyFile]
    /\ unlinks = [p \in Paths |-> 0]
    /\ undeletable = {}
    /\ img = NoImg

Next ==
    \E r \in {1} :
        \/ unlock_pdf(r)
        \/ unlock_pdf_resume(r)
        \/ get_pdf_info(r)
        \/ get_pdf_info_resume(r)
        \/ create_pdf_subset(r)
        \/ create_pdf_subset_resume(r)
        \/ cleanup_temp_files_start(r)
        \/ cleanup_temp_files(r)

Spec == Init /\ [][Next]_vars

NextImage ==
    \/ resize_image
    \/ resize_image_file
    \/ convert_image
    \/ convert_image_file
    \/ get_image_info
    \/ get_image_info_file

SpecImage == Init /\ [][NextImage]_vars

\* ---- PDF requests interleaved: every request of Requests runs, each
\* suspended in its await while the others and the cleanup tasks take steps.
\* The arguments are one well-formed one-page upload under a name Response
\* can encode and under one it cannot, without I/O faults.
Workload ==
    {[NoCall EXCEPT !.op = op, !.filename = filename, !.upload = Doc(1, FALSE),
                    !.password = "right", !.start_page = 1, !.end_page = 1] :
        op \in {"unlock", "info", "subset"},
        filename \in {<<"a", ".", "p", "d", "f">>, <<"U+6587", ".", "p", "d", "f">>}}

\* PDFController.unlock_pdf, up to its await, on the workload
unlock_pdf_interleaved(r) ==
    /\ pc[r] = "idle"
    /\ \E c \in {w \in Workload : w.op = "unlock"} : Enter(r, c)
    /\ UNCHANGED img

\* PDFController.get_pdf_info, up to its await, on the workload
get_pdf_info_interleaved(r) ==
    /\ pc[r] = "idle"
    /\ \E c \in {w \in Workload : w.op = "info"} : Enter(r, c)
    /\ UNCHANGED img

\* PDFController.create_pdf_subset, up to its await, on the workload
create_pdf_subset_interleaved(r) ==
    /\ pc[r] = "idle"
    /\ \E c \in {w \in Workload : w.op = "subset"} : Enter(r, c)
    /\ UNCHANGED img

NextInterleaved ==
    \E r \in Requests :
        \/ unlock_pdf_interleaved(r)
        \/ unlock_pdf_resume(r)
        \/ get_pdf_info_interleaved(r)
        \/ get_pdf_info_resume(r)
        \/ create_pdf_subset_interleaved(r)
        \/ create_pdf_subset_resume(r)
        \/ cleanup_temp_files_start(r)
        \/ cleanup_temp_files(r)

SpecInterleaved == Init /\ [][NextInterleaved]_vars


\* ================================================================ claims
Done(r, op) == pc[r] = "done" /\ call[r].op = op
Made(r, event) == \E i \in DOMAIN trace[r] : trace[r][i] = event
TempFiles(r) == {temp_input_path[r], temp_output_path[r]} \ {None}
Failed(r) == response[r].kind \in {"ValidationError", "ProcessingError"}

\* C1: when unlock_pdf or create_pdf_subset has created temp files and ends by
\* raising a ValidationError or a ProcessingError, none of the request's temp
\* files exists when the handler returns.
C1_ErrorPathLeavesNoTempFile ==
    \A r \in Requests :
        (/\ Done(r, "unlock") \/ Done(r, "subset")
         /\ Failed(r))
        => TempFiles(r) \cap exists = {}

\* C2: once a PDF request has returned and no deferred cleanup task of it is
\* still to run, every temp file it created is gone and was unlinked exactly
\* once.
C2_EveryTempFileUnlinkedExactlyOnce ==
    \A r \in Requests :
        (pc[r] = "done" /\ task[r] \in {"none", "done"})
        => \A p \in TempFiles(r) : p \notin exists /\ unlinks[p] = 1

\* the handler got as far as doc.authenticate, which returned falsy
AuthenticateRejects(r) ==
    /\ ~NotAPdfName(call[r].filename)
    /\ ~call[r].upload.corrupt
    /\ call[r].fault \notin {"create_in", "read", "write", "create_out", "open",
                             "authenticate"}
    /\ call[r].upload.encrypted
    /\ call[r].password # "right"

\* C3: unlock_pdf with a password that authenticate rejects ends in a
\* ValidationError (400, "check the password"), never in a ProcessingError.
C3_RejectedPasswordIsValidationError ==
    \A r \in Requests :
        (Done(r, "unlock") /\ AuthenticateRejects(r))
        => /\ Made(r, "authenticate.rejected")
           /\ response[r].kind = "ValidationError"
           /\ response[r].status_code = 400
           /\ response[r].message =
                  "Failed to unlock PDF. Check if the password is correct."

C3_Witness ==
    \E r \in Requests :
        /\ Done(r, "unlock")
        /\ AuthenticateRejects(r)
        /\ call[r].fault = "close"
        /\ response[r].kind = "ValidationError"

\* C4: in unlock, a codec or I/O fault (fitz.open, authenticate or save
\* raising) is reported as a ProcessingError (500), not as the ValidationError
\* of a wrong password.
C4_CodecFaultIsProcessingError ==
    \A r \in Requests :
        (/\ Done(r, "unlock")
         /\ \/ Made(r, "open.raise")
            \/ Made(r, "authenticate.raise")
            \/ Made(r, "save.raise"))
        => /\ response[r].kind = "ProcessingError"
           /\ response[r].status_code = 500

\* the page range violates 1 <= start_page <= end_page <= pageCount
BadRange(c) ==
    ~(/\ 1 <= c.start_page
      /\ c.start_page <= c.end_page
      /\ c.end_page <= page_count(c.upload))

\* C5: create_pdf_subset rejects every request whose page range violates
\* 1 <= start_page <= end_page <= pageCount with a ValidationError (stated for
\* a well-formed, unencrypted upload and no I/O fault).
C5_BadPageRangeIsValidationError ==
    \A r \in Requests :
        (/\ Done(r, "subset")
         /\ ~NotAPdfName(call[r].filename)
         /\ ~call[r].upload.corrupt
         /\ ~call[r].upload.encrypted
         /\ call[r].fault = "none"
         /\ BadRange(call[r]))
        => response[r].kind = "ValidationError"

\* C6: the document create_pdf_subset returns has exactly
\* end_page - start_page + 1 pages, the i-th being source page
\* start_page + i - 1.
C6_SubsetIsTheRequestedPages ==
    \A r \in Requests :
        (Done(r, "subset") /\ response[r].kind = "Response")
        => response[r].body.pages =
               [i \in 1..(call[r].end_page - call[r].start_page + 1) |->
                    call[r].start_page + i - 1]

\* a resize request whose source was resolved, so that its new dimensions
\* were computed
Sized ==
    /\ img.op \in {"resize_image", "resize_image_file"}
    /\ img.image.origin # "none"
Proportional == Sized /\ img.request.maintain_aspect_ratio
\* width / height > original_width / original_height, in exact arithmetic
HeightBinds ==
    img.request.width * img.image.height > img.image.width * img.request.height

\* C7: with maintain_aspect_ratio the final dimensions fit inside the
\* requested box: new_width <= width and new_height <= height.
C7_ResizeFitsTheBox ==
    Proportional
    => /\ img.new_width <= img.request.width
       /\ img.new_height <= img.request.height

C7_Witness ==
    /\ Proportional
    /\ img.result.kind = "ImageResponse"
    /\ img.new_width < img.request.width
    /\ img.new_height = img.request.height

\* x is an integer nearest to a / b
IsNearest(x, a, b) == 2 * (x * b - a) <= b /\ 2 * (a - x * b) <= b
\* x is a / b truncated
IsTruncated(x, a, b) == x * b <= a /\ a < (x + 1) * b

\* C8 as stated: the proportional size is (round(h * W / H), h) when
\* w / h > W / H and (w, round(w * H / W)) otherwise, round to nearest
\* (stated for the requests that were resized and answered).
C8_SizeIsRoundedToNearest ==
    (Proportional /\ img.result.kind = "ImageResponse")
    => IF HeightBinds
       THEN /\ IsNearest(img.new_width, img.request.height * img.image.width,
                         img.image.height)
            /\ img.new_height = img.request.height
       ELSE /\ img.new_width = img.request.width
            /\ IsNearest(img.new_height, img.request.width * img.image.height,
                         img.image.width)

\* C8 amended: the proportional size is (int(h * W / H), h) when
\* w / h > W / H and (w, int(w * H / W)) otherwise, int() truncating, in both
\* resize_image and resize_image_file.
C8_SizeIsTruncated ==
    Proportional
    => IF HeightBinds
       THEN /\ IsTruncated(img.new_width, img.request.height * img.image.width,
                           img.image.height)
            /\ img.new_height = img.request.height
       ELSE /\ img.new_width = img.request.width
            /\ IsTruncated(img.new_height, img.request.width * img.image.height,
                           img.image.width)

C8_Witness ==
    /\ Proportional
    /\ img.op = "resize_image_file"
    /\ img.result.kind = "ImageResponse"
    /\ HeightBinds
    /\ ~IsNearest(img.new_width, img.request.height * img.image.width,
                  img.image.height)

\* C9: the dimensions resize hands to the resampler are positive:
\* new_width >= 1 and new_height >= 1, so no validated request fails on a
\* zero-sized result.
C9_ResizeDimensionsPositive ==
    Sized
    => /\ img.new_width >= 1
       /\ img.new_height >= 1
       /\ ~resize_raises(<<img.new_width, img.new_height>>)

\* C10: the source is the first available of uploaded bytes, inline payload,
\* remote URL; with image_data present the URL is never fetched.
C10_FirstAvailableSourceWins ==
    /\ (img.op # "none" /\ img.file_data.present)
       => img.image.origin \in {"file", "none"} /\ ~img.fetched
    /\ (img.op # "none" /\ img.request.image_data.present)
       => img.image.origin \in {"image_data", "none"} /\ ~img.fetched
    /\ img.fetched
       => /\ ~img.file_data.present
          /\ ~img.request.image_data.present
          /\ img.request.image_url.present

C10_Witness ==
    /\ img.op = "resize_image"
    /\ img.request.image_data.present
    /\ img.request.image_url.present
    /\ img.image.origin = "image_data"
    /\ img.result.kind = "ImageResponse"
    /\ ~img.fetched

\* the remote source cannot be turned into pixels: the request fails, the
\* response is not an image, the body is over the ceiling, or the body cannot
\* be decoded (unidentified, or cut short after its header)
UrlFails(image_url) ==
    \/ image_url.failure # "none"
    \/ lower_content_type(image_url.content_type)[1] # "image"
    \/ image_url.payload.length > MaxDownload
    \/ ~image_url.payload.decodes
    \/ image_url.payload.truncated

\* C11: every failure while resolving a remote-URL source (transport error,
\* timeout, non-success status, content-type not image/, body over 10 MiB,
\* undecodable body) is reported as a ValidationError (400) naming field
\* image_url, never as a ProcessingError.
C11_UrlFailureIsValidationError ==
    (img.fetched /\ UrlFails(img.request.image_url))
    => /\ img.result.kind = "ValidationError"
       /\ img.result.field = "image_url"
       /\ img.http.status_code = 400

ResizeOps == {"resize_image", "resize_image_file"}
ConvertOps == {"convert_image", "convert_image_file"}

\* the payload the resolved image was opened from
SourcePayload ==
    CASE img.image.origin = "file" -> img.file_data
      [] img.image.origin = "image_data" -> img.request.image_data
      [] img.image.origin = "image_url" -> img.request.image_url.payload
      [] OTHER -> NoPayload

\* the encoder the request asks for
OutputFormat ==
    IF img.op \in ConvertOps
    THEN format_map(upper(img.request.target_format))
    ELSE format_map(upper(img.request.format))

\* a resize that fails on its computed size (C9), whatever the mode
FailsOnSize ==
    img.op \in ResizeOps /\ resize_raises(<<img.new_width, img.new_height>>)

\* a complete source in a transparent or indexed mode, to be encoded as JPEG
TransparentToJpeg ==
    /\ img.op \in ResizeOps \cup ConvertOps
    /\ img.image.origin # "none"
    /\ SourcePayload.mode \in {"RGBA", "LA", "P"}
    /\ ~SourcePayload.truncated
    /\ OutputFormat = "JPEG"
    /\ ~FailsOnSize

\* C12: for every input form (inline payload, remote URL, uploaded bytes) an
\* image in mode RGBA, LA or P is composited onto white RGB before it is
\* encoded as JPEG, so convert and resize to JPEG do not fail on the source's
\* colour mode.
C12_TransparentSourceEncodesToJpeg ==
    TransparentToJpeg
    => /\ img.image.mode = "RGB"
       /\ img.result.kind = "ImageResponse"

\* a format name that is, whatever its case, one of the supported names
IsSupportedName(format) ==
    format \in {"png", "PNG", "jpeg", "JPEG", "jpg", "JPG", "gif", "GIF",
                "bmp", "BMP", "webp", "WEBP"}

\* the convert controller was called with a request its model admits (a JSON
\* request carries a source) and an unsupported target_format
UnsupportedTarget ==
    /\ img.op \in ConvertOps
    /\ img.result.kind # "none"
    /\ img.op = "convert_image"
       => img.request.image_data.present \/ img.request.image_url.present
    /\ ~IsSupportedName(img.request.target_format)

\* C13 as stated: convert_image and convert_image_file reject every request
\* with an unsupported target_format with a ValidationError (400) whose field
\* is target_format, whatever the other fields are, and decode or encode no
\* image.
C13_UnsupportedTargetNamesTargetFormat ==
    UnsupportedTarget
    => /\ img.result.kind = "ValidationError"
       /\ img.result.status_code = 400
       /\ img.result.field = "target_format"
       /\ img.image.origin = "none" /\ ~img.fetched /\ img.out = NoOut

\* C13 amended: such a request is rejected with a ValidationError (400) and no
\* image is decoded or encoded; the field named is target_format when the
\* request's source format is supported, and format when it is not (the source
\* format is checked first).
C13_UnsupportedTargetRejected ==
    UnsupportedTarget
    => /\ img.result.kind = "ValidationError"
       /\ img.result.status_code = 400
       /\ img.result.field = IF IsSupportedName(img.request.format)
                             THEN "target_format" ELSE "format"
       /\ img.image.origin = "none" /\ ~img.fetched /\ img.out = NoOut

C13_Witness ==
    /\ UnsupportedTarget
    /\ img.op = "convert_image_file"
    /\ img.file_data.decodes
    /\ IsSupportedName(img.request.format)
    /\ img.result.field = "target_format"

\* C14: for every target_format convert accepts, the image bytes of the
\* response decode to an image whose format equals the requested target format
\* (case aside) and the response's format field.
C14_ConvertedBytesHaveTheReportedFormat ==
    (img.op \in ConvertOps /\ img.result.kind = "ImageResponse")
    => /\ img.out.result.format = upper(img.request.target_format)
       /\ img.out.result.format = img.out.format

InfoOps == {"get_image_info", "get_image_info_file"}

\* C15: get_image_info and get_image_info_file return, for every decodable
\* image and every input form, the format the decoder detected in the source
\* payload (never a placeholder) and the source's width and height.
C15_InfoReportsTheDetectedFormat ==
    (img.op \in InfoOps /\ img.result.kind = "ImageInfoResponse")
    => /\ img.info.format = SourcePayload.format
       /\ img.info.width = SourcePayload.width
       /\ img.info.height = SourcePayload.height

\* C16: a failure the operation reports as ProcessingError reaches the
\* client as status 500 with error_code and error_type processing_error, on
\* the JSON endpoints and on the file-upload endpoints alike; a ValidationError
\* raised inside the operation stays a 400 and is not turned into a processing
\* error.
C16_ProcessingErrorIsAnswered500 ==
    /\ img.result.kind = "ProcessingError"
       => /\ img.http.status_code = 500
          /\ img.http.error_type = "processing_error"
          /\ img.http.error_code = "PROCESSING_ERROR"
    /\ img.result.kind = "ValidationError"
       => /\ img.http.status_code = 400
          /\ img.http.error_type # "processing_error"

\* the size of the image a successful request encodes
ProducedSize ==
    IF img.op \in ResizeOps
    THEN <<img.new_width, img.new_height>>
    ELSE <<img.image.width, img.image.height>>

\* C19: for every successful resize or convert, result is the base64 text of
\* the produced image (four characters for every three bytes, padded) and size
\* is the number of characters of that text, not the number of bytes it
\* decodes to.
C19_SizeIsTheLengthOfTheBase64Text ==
    (img.op \in ResizeOps \cup ConvertOps /\ img.result.kind = "ImageResponse")
    => /\ img.out.result.format = OutputFormat
       /\ <<img.out.result.width, img.out.result.height>> = ProducedSize
       /\ img.out.result.nbytes >= 1
       /\ img.out.result.chars = 4 * ((img.out.result.nbytes + 2) \div 3)
       /\ img.out.size = img.out.result.chars
       /\ img.out.size # img.out.result.nbytes

C19_Witness ==
    /\ img.op = "convert_image"
    /\ img.result.kind = "ImageResponse"
    /\ img.out.result.nbytes = 4
    /\ img.out.size = 8

\* unlock_pdf ran without an injected fault and authenticate accepted the
\* password
UnlockAccepted(r) ==
    /\ Done(r, "unlock")
    /\ call[r].fault = "none"
    /\ Made(r, "authenticate.ok")

\* C17: unlock_pdf with a password authenticate accepts returns status 200
\* with the content of the output temp file as body, a document that is not
\* encrypted, under the filename unlocked_<original filename> and with
\* Content-Length the exact length of the body.
C17_UnlockReturnsTheUnlockedFile ==
    \A r \in Requests :
        UnlockAccepted(r)
        => /\ response[r].kind = "Response"
           /\ response[r].status_code = 200
           /\ response[r].body = saved(call[r].upload)
           /\ ~response[r].body.encrypted
           /\ response[r].filename = <<"unlocked_">> \o call[r].filename
           /\ response[r].content_length = str(file_len(response[r].body))

\* the filename ends in ".pdf", in whatever case
HasPdfSuffix(filename) ==
    /\ Len(filename) >= 4
    /\ filename[Len(filename) - 3] = "."
    /\ filename[Len(filename) - 2] \in {"p", "P"}
    /\ filename[Len(filename) - 1] \in {"d", "D"}
    /\ filename[Len(filename)] \in {"f", "F"}

\* C18: unlock_pdf, get_pdf_info and create_pdf_subset given a missing
\* filename or one that does not end in .pdf (case-insensitively) raise a
\* ValidationError naming field file before a temp file is created and before
\* the upload is read: the handler has made no call at all.  A name ending in
\* .pdf in any case is not rejected this way.
C18_BadFilenameRejectedBeforeAnyIO ==
    \A r \in Requests :
        /\ (pc[r] # "idle" /\ ~HasPdfSuffix(call[r].filename))
           => /\ pc[r] = "done"
              /\ response[r].kind = "ValidationError"
              /\ response[r].status_code = 400
              /\ response[r].field = "file"
              /\ trace[r] = <<>>
              /\ temp_input_path[r] = None /\ temp_output_path[r] = None
              /\ task[r] = "none"
        /\ (pc[r] # "idle" /\ HasPdfSuffix(call[r].filename))
           => response[r].field # "file"

C18_Witness ==
    \E r \in Requests :
        /\ Done(r, "subset")
        /\ call[r].filename = <<"a", ".", "t", "x", "t">>
        /\ call[r].fault = "create_in"
        /\ ~call[r].upload.corrupt
        /\ response[r].field = "file"
        /\ used = {}

\* unlock_pdf or create_pdf_subset returned its Response
Delivered(r) ==
    /\ pc[r] = "done"
    /\ call[r].op \in {"unlock", "subset"}
    /\ response[r].kind = "Response"

\* the place of a call in the handler's trace
Pos(r, event) == CHOOSE i \in DOMAIN trace[r] : trace[r][i] = event

\* C20: in unlock_pdf and create_pdf_subset the body is read from the output
\* temp file before the cleanup task is created; the task unlinks nothing
\* before its sleep is over (every unlink of a file of an answered request is
\* the step of its task after the sleep); so whatever the task has done, the
\* body of the response is the complete content written to the output file.
C20_BodyReadBeforeDeferredCleanup ==
    /\ [](\A r \in Requests :
            Delivered(r)
            => /\ Made(r, "read_out") /\ Made(r, "create_task")
               /\ Pos(r, "read_out") < Pos(r, "create_task")
               /\ response[r].body = content[temp_output_path[r]]
               /\ ~response[r].body.corrupt
               /\ task[r] \in {"created", "sleeping"}
                  => \A p \in TempFiles(r) : p \in exists /\ unlinks[p] = 0)
    /\ [][\A r \in Requests : \A p \in TempFiles(r) :
            (Delivered(r) /\ unlinks'[p] # unlinks[p])
            => (task[r] = "sleeping" /\ task'[r] = "done")]_vars

C20_Witness ==
    \E r \in Requests :
        /\ Delivered(r)
        /\ call[r].op = "subset"
        /\ task[r] = "done"
        /\ temp_output_path[r] \notin exists
        /\ Len(response[r].body.pages) = 2

\* how many of the handler's calls are among the given events
Count(r, events) == Cardinality({i \in DOMAIN trace[r] : trace[r][i] \in events})

\* C21: every document handle the PDF helpers open (the source document and,
\* in the subset helper, the new document) has been closed when the helper
\* has returned or raised, on every exit path, an exception raised by a call
\* made after the open included.
C21_EveryOpenedHandleIsClosed ==
    \A r \in Requests :
        pc[r] = "done"
        => Count(r, {"open", "new_doc"})
             = Count(r, {"close", "close_new", "close.raise"})

\* C22: on an encrypted upload no save and no page extraction is invoked on a
\* document handle unless an authenticate call on that handle succeeded before.
C22_NoExtractionWithoutAuthenticate ==
    \A r \in Requests :
        (/\ pc[r] = "done"
         /\ call[r].upload.encrypted
         /\ Count(r, {"insert_pdf", "insert_pdf.raise", "save", "save.raise"}) > 0)
        => Made(r, "authenticate.ok")

\* the handler ran its "Clean up on error" block and an os.unlink in it raised
ErrorCleanupFailed(r) ==
    /\ pc[r] = "done"
    /\ Count(r, {"unlink_in.raise", "unlink_out.raise"}) > 0

\* C23: a temp file that cannot be deleted never changes what the client
\* gets: on the error path the failing unlink neither replaces the
\* ProcessingError nor leaves the handler as an unhandled exception, and the
\* deferred cleanup task ends without raising.
C23_FailedDeletionNeverSurfaces ==
    \A r \in Requests :
        /\ ErrorCleanupFailed(r) => response[r].kind = "ProcessingError"
        /\ pc[r] = "done" => response[r].kind # "Exception"

\* C24: a subset request whose page range violates
\* 1 <= start_page <= end_page <= pageCount is rejected before any file I/O:
\* no temp file has been created or written and no output document saved.
C24_BadRangeRejectedBeforeAnyIO ==
    \A r \in Requests :
        (/\ Done(r, "subset")
         /\ HasPdfSuffix(call[r].filename)
         /\ ~call[r].upload.corrupt
         /\ call[r].fault = "none"
         /\ BadRange(call[r]))
        => /\ response[r].kind = "ValidationError"
           /\ Count(r, {"create_in", "write", "create_out", "save"}) = 0
           /\ used = {}

\* the URL of the request was fetched and answered with a body the download
\* checks refuse: a content type outside image/, or more than 10 MiB
RefusedDownload ==
    /\ img.fetched
    /\ img.request.image_url.failure = "none"
    /\ \/ img.request.image_url.content_type[1] \notin {"image", "Image", "IMAGE"}
       \/ img.request.image_url.payload.length > 10 * 1024 * 1024

\* C25: when the source is a remote URL, the content-type check and the
\* 10 MiB size check are over before any decode: Image.open is never called
\* on a body whose content type does not start with image/ or that is longer
\* than 10 * 1024 * 1024 bytes; the request ends in a ValidationError.
C25_DownloadChecksPrecedeImageOpen ==
    RefusedDownload
    => /\ ~img.opened
       /\ img.image = NoImage
       /\ img.result.kind = "ValidationError"
       /\ img.result.field = "image_url"

C25_Witness ==
    /\ RefusedDownload
    /\ img.request.image_url.content_type[1] = "image"
    /\ img.request.image_url.payload.decodes
    /\ img.request.image_url.payload.length > 10 * 1024 * 1024
    /\ ~img.opened
    /\ img.result.kind = "ValidationError"

\* the deferred cleanup task of request r has run to its end
Cleaned(r) == pc[r] = "done" /\ task[r] = "done"

\* C30: cleanup_temp_files attempts the deletion of every path it was given:
\* when the task has ended, every path of the request that can be deleted is
\* gone, whether or not the unlink of the other path raised, a path that
\* cannot be deleted is still there, and the task has ended without raising.
C30_CleanupAttemptsEveryPath ==
    \A r \in Requests :
        Cleaned(r)
        => \A p \in TempFiles(r) :
              /\ p \notin undeletable => p \notin exists
              /\ p \in undeletable => (p \in exists /\ unlinks[p] = 0)

C30_Witness ==
    \E r \in Requests :
        /\ Cleaned(r)
        /\ response[r].kind = "Response"
        /\ temp_input_path[r] \in undeletable
        /\ temp_input_path[r] \in exists
        /\ temp_output_path[r] \notin exists
        /\ unlinks[temp_output_path[r]] = 1

\* the paths a cleanup can be handed
SomePaths == Paths \cup {None}

\* C26: deletion is idempotent.  A cleanup of paths a cleanup has already
\* deleted (the deferred task after the error-path cleanup, or the task run
\* twice) performs no unlink, raises nothing, and leaves the file system as the
\* single cleanup left it.
C26_CleanupIsIdempotent ==
    /\ [](\A in \in SomePaths, out \in SomePaths :
            LET once == cleanup_temp_files_loop(FS, in, out) IN
            /\ cleanup_temp_files_loop(once, in, out) = once
            /\ cleanup_temp_files_loop(cleanup_on_error(FS, in, out), in, out) = once)
    /\ [](\A r \in Requests : \A p \in TempFiles(r) : Cleaned(r) => unlinks[p] <= 1)
    /\ [][\A r \in Requests :
            (task[r] = "sleeping" /\ task'[r] = "done" /\ TempFiles(r) \cap exists = {})
            => UNCHANGED <<exists, used, content, unlinks>>]_vars

C26_Witness ==
    \E r \in Requests :
        /\ Cleaned(r)
        /\ Made(r, "create_task")
        /\ Made(r, "unlink_in")
        /\ Made(r, "unlink_out")
        /\ \A p \in TempFiles(r) : p \notin exists /\ unlinks[p] = 1

\* request r holds a temp file it created and has not yet given up: it is
\* suspended in its await, or it has answered and its cleanup task is pending
Holds(r, p) ==
    \/ pc[r] = "reading" /\ p = temp_input_path[r]
    \/ /\ pc[r] = "done"
       /\ response[r].kind = "Response"
       /\ task[r] \in {"created", "sleeping"}
       /\ p \in TempFiles(r)

\* C27: temp files are request-private under any interleaving of PDF
\* requests: no two requests hold the same path, and a file a request holds
\* is never deleted by another request or by another request's cleanup task.
C27_TempFilesAreRequestPrivate ==
    /\ \A r \in Requests : \A p \in Paths : Holds(r, p) => p \in exists
    /\ \A r \in Requests, q \in Requests : \A p \in Paths :
          (r # q /\ Holds(r, p)) => ~Holds(q, p)

FileOps == {"resize_image_file", "convert_image_file", "get_image_info_file"}

\* the declared content type of the upload is missing or outside image/
NotDeclaredImage == img.content_type[1] # "image"

\* C28: on the file-upload endpoints an upload whose declared content type is
\* missing or does not start with image/ is answered 400 before the upload is
\* read and before the controller is called; the controller and its resolver
\* only ever see uploads declared as image/.
C28_UploadTypeCheckedBeforeRead ==
    img.op \in FileOps
    => /\ NotDeclaredImage
          => /\ img.http.status_code = 400
             /\ img.file_data = NoPayload
             /\ img.result.kind = "none"
             /\ ~img.opened
             /\ img.image = NoImage
       /\ (img.result.kind # "none" \/ img.opened \/ img.file_data.present)
          => img.content_type[1] = "image"

C28_Witness ==
    /\ img.op = "resize_image_file"
    /\ img.content_type = <<"application", "pdf">>
    /\ img.http.status_code = 400
    /\ img.result.kind = "none"
    /\ img.file_data = NoPayload

JsonOps == {"resize_image", "convert_image"}

\* the first parameter check of resize_image / convert_image the request
\* fails, in the order source, dimensions, format, target format: the field
\* of the ValidationError, or "" when it passes them all
FirstFailedCheck ==
    IF ~img.request.image_data.present /\ ~img.request.image_url.present
    THEN "image_data"
    ELSE IF img.op = "resize_image" /\ (img.request.width <= 0 \/ img.request.height <= 0)
    THEN "width"
    ELSE IF ~IsSupportedName(img.request.format)
    THEN "format"
    ELSE IF img.op = "convert_image" /\ ~IsSupportedName(img.request.target_format)
    THEN "target_format"
    ELSE ""

\* C29: in resize_image and convert_image every parameter check is over
\* before source resolution starts.  A request failing a check is rejected
\* with the ValidationError of the first check it fails, in the order source
\* presence, dimensions, format, and nothing was decoded or fetched for it; a
\* request passing them all reaches the resolver.
C29_ValidationPrecedesResolution ==
    img.op \in JsonOps
    => IF FirstFailedCheck # ""
       THEN /\ img.result.kind = "ValidationError"
            /\ img.result.field = FirstFailedCheck
            /\ ~img.fetched
            /\ ~img.opened
            /\ img.image = NoImage
       ELSE img.fetched \/ img.opened

C29_Witness ==
    /\ img.op = "convert_image"
    /\ ~img.request.image_data.present
    /\ ~img.request.image_url.present
    /\ ~IsSupportedName(img.request.format)
    /\ img.result.field = "image_data"
    /\ ~img.fetched
    /\ ~img.opened

====
